---- MODULE Spec2Model ----
(***************************************************************************)
(* Model of the soong finder cache readers:                                *)
(*   - the aggregating reader (src/unnamed/part_000), which decodes the    *)
(*     header, collects every reconstructed path, deduplicates, sorts and  *)
(*     reports counts;                                                     *)
(*   - the streaming reader (src/main/main.go), which skips the header and *)
(*     prints every reconstructed path as it is decoded.                   *)
(* Strings are sequences of one-character strings; the byte stream of the  *)
(* cache file is a sequence of bytes, where one byte stands either for the *)
(* line separator or for a whole JSON text (see the decoders below).       *)
(***************************************************************************)
EXTENDS Integers, Sequences, FiniteSets, TLC

\* ------------------------------------------------------------------ bounds
\* longest root / relative path drawn for the path functions
MaxLen == 3
\* longest filename drawn for the path functions
MaxNameLen == 1
\* longest cache file (in bytes) fed to the readers
MaxStream == 7

\* ------------------------------------------------------- strings and bytes
PathChars == {"/", ".", "a"}

\* byte value of a character, for Go's byte-wise string comparison
Code(c) ==
    CASE c = "." -> 46
      [] c = "/" -> 47
      [] c = "a" -> 97
      [] c = "b" -> 98
      [] c = "c" -> 99

RECURSIVE StrLess(_, _)
\* Go's s < t on strings: byte-wise lexicographic
StrLess(s, t) ==
    IF t = <<>> THEN FALSE
    ELSE IF s = <<>> THEN TRUE
    ELSE IF Code(Head(s)) < Code(Head(t)) THEN TRUE
    ELSE IF Code(Head(s)) > Code(Head(t)) THEN FALSE
    ELSE StrLess(Tail(s), Tail(t))

\* Go's s > t on strings
StrGreater(s, t) == StrLess(t, s)

\* all strings over cs of length at most n
StringsUpTo(cs, n) == UNION {[1..k -> cs] : k \in 0..n}

\* ------------------------------------------------------ path reconstruction
\* a join without the special case for the root separator
joinCleanPathsDoubleSep(base, leaf) ==
    IF base = <<>> THEN leaf
    ELSE IF leaf = <<>> THEN base
    ELSE base \o <<"/">> \o leaf

joinCleanPaths(base, leaf) ==
    IF base = <<>> THEN leaf
    ELSE IF base = <<"/">> THEN base \o leaf
    ELSE IF leaf = <<>> THEN base
    ELSE base \o <<"/">> \o leaf

IsPathSeparator(c) == c = "/"

RECURSIVE Backtrack(_, _, _)
\* the ".." case of Clean once out.w has been decremented to w: drop to the
\* last separator, never below dotdot
Backtrack(out, w, dotdot) ==
    IF w > dotdot /\ ~IsPathSeparator(out[w + 1])
    THEN Backtrack(out, w - 1, dotdot)
    ELSE SubSeq(out, 1, w)

RECURSIVE ElemEnd(_, _)
\* first index (0-based) at or after r holding a separator, or Len(path)
ElemEnd(path, r) ==
    IF r < Len(path) /\ ~IsPathSeparator(path[r + 1])
    THEN ElemEnd(path, r + 1)
    ELSE r

RECURSIVE CleanLoop(_, _, _, _)
\* the scanning loop of filepath.Clean; r and dotdot are 0-based as in Go,
\* out is the output buffer (out.w = Len(out))
CleanLoop(path, r, out, dotdot) ==
    LET n == Len(path)
        rooted == IsPathSeparator(path[1])
    IN  IF r >= n THEN out
        ELSE IF IsPathSeparator(path[r + 1])
        THEN CleanLoop(path, r + 1, out, dotdot)
        ELSE IF path[r + 1] = "." /\ (r + 1 = n \/ IsPathSeparator(path[r + 2]))
        THEN CleanLoop(path, r + 1, out, dotdot)
        ELSE IF path[r + 1] = "." /\ path[r + 2] = "."
                /\ (r + 2 = n \/ IsPathSeparator(path[r + 3]))
        THEN IF Len(out) > dotdot
             THEN CleanLoop(path, r + 2, Backtrack(out, Len(out) - 1, dotdot), dotdot)
             ELSE IF ~rooted
             THEN LET o2 == (IF Len(out) > 0 THEN out \o <<"/">> ELSE out)
                                \o <<".", ".">>
                  IN  CleanLoop(path, r + 2, o2, Len(o2))
             ELSE CleanLoop(path, r + 2, out, dotdot)
        ELSE LET o1 == IF (rooted /\ Len(out) # 1) \/ (~rooted /\ Len(out) # 0)
                       THEN out \o <<"/">> ELSE out
                 e == ElemEnd(path, r)
             IN  CleanLoop(path, e, o1 \o SubSeq(path, r + 1, e), dotdot)

\* filepath.Clean on a Unix build
Clean(path) ==
    IF path = <<>> THEN <<".">>
    ELSE LET rooted == IsPathSeparator(path[1])
             out == CleanLoop(path, IF rooted THEN 1 ELSE 0,
                              IF rooted THEN <<"/">> ELSE <<>>,
                              IF rooted THEN 1 ELSE 0)
         IN  IF Len(out) = 0 THEN <<".">> ELSE out

\* filepath.IsAbs on a Unix build
IsAbs(path) == Len(path) > 0 /\ path[1] = "/"

\* "Clean the path": filepath.Clean, then "/" prepended when not absolute
canonicalize(path) ==
    LET cleaned == Clean(path)
    IN  IF ~IsAbs(cleaned) THEN <<"/">> \o cleaned ELSE cleaned

RECURSIVE Segments(_)
\* the separator-delimited segments of a string (empty segments included)
Segments(s) ==
    LET e == ElemEnd(s, 0)
    IN  IF e = Len(s) THEN <<s>>
        ELSE <<SubSeq(s, 1, e)>> \o Segments(SubSeq(s, e + 2, Len(s)))

HasDotSegment(s) ==
    \E i \in 1..Len(Segments(s)) : Segments(s)[i] \in {<<".">>, <<".", ".">>}

VARIABLES root, rel, fname, joined, dirPath, filePath, stage

pathVars == <<root, rel, fname, joined, dirPath, filePath, stage>>

InitPath ==
    /\ root \in StringsUpTo(PathChars, MaxLen)
    /\ rel \in StringsUpTo(PathChars, MaxLen)
    /\ fname \in StringsUpTo(PathChars, MaxNameLen)
    /\ joined = <<>>
    /\ dirPath = <<>>
    /\ filePath = <<>>
    /\ stage = "start"

\* path := joinCleanPaths(persistedDirs.Root, dir.P)
JoinDir ==
    /\ stage = "start"
    /\ joined' = joinCleanPaths(root, rel)
    /\ stage' = "joined"
    /\ UNCHANGED <<root, rel, fname, dirPath, filePath>>

\* path = filepath.Clean(path); if !IsAbs(path) { path = "/" + path }
CanonDir ==
    /\ stage = "joined"
    /\ dirPath' = canonicalize(joined)
    /\ stage' = "dir"
    /\ UNCHANGED <<root, rel, fname, joined, filePath>>

\* filePath for one filename of the entry
BuildFile ==
    /\ stage = "dir"
    /\ filePath' = canonicalize(joinCleanPaths(dirPath, fname))
    /\ stage' = "file"
    /\ UNCHANGED <<root, rel, fname, joined, dirPath>>

\* ------------------------------------------------------------ line reader
lineSeparator == "\n"

\* one byte per JSON text: "C" is a JSON object (a config record), "A" and
\* "B" are JSON arrays of snapshots; any other content of a record (empty,
\* or several texts run together) is not one JSON value
StreamBytes == {lineSeparator, "C", "A", "B"}

RECURSIVE IndexByte(_, _, _)
\* index of the first delim at or after pos, 0 when there is none
IndexByte(stream, pos, delim) ==
    IF pos > Len(stream) THEN 0
    ELSE IF stream[pos] = delim THEN pos
    ELSE IndexByte(stream, pos + 1, delim)

\* bufio.Reader.ReadBytes on a source that never fails: the bytes up to and
\* including delim, or the rest of the source with io.EOF
ReadBytes(stream, pos, delim) ==
    LET d == IndexByte(stream, pos, delim)
    IN  IF d = 0
        THEN [line |-> SubSeq(stream, pos, Len(stream)), err |-> "EOF",
              pos |-> Len(stream) + 1]
        ELSE [line |-> SubSeq(stream, pos, d), err |-> "nil", pos |-> d + 1]

readLine(stream, pos) == ReadBytes(stream, pos, lineSeparator)

\* if len(b) > 0 && b[len(b)-1] == lineSeparator { b = b[:len(b)-1] }
stripSeparator(b) ==
    IF Len(b) > 0 /\ b[Len(b)] = lineSeparator THEN SubSeq(b, 1, Len(b) - 1) ELSE b

\* ---------------------------------------------------------------- decoders
Dir(p, f) == [P |-> p, T |-> 0, I |-> 5, F |-> f]

\* the snapshots the JSON text "A" holds
EntryA ==
    << [Device |-> 1, Root |-> <<"/">>,
        Dirs |-> << Dir(<<"b">>, <<>>), Dir(<<"a">>, << <<"c">> >>) >>] >>

\* the snapshots the JSON text "B" holds
EntryB ==
    << [Device |-> 1, Root |-> <<"/", "a", "/">>,
        Dirs |-> << Dir(<<".", ".", "/", "b">>, << <<"c">>, <<"c">> >>) >>],
       [Device |-> 2, Root |-> <<>>,
        Dirs |-> << Dir(<<"a">>, <<>>) >>] >>

\* json.Unmarshal(bytes, &cacheEntry): an array of snapshots decodes, an
\* object, an empty input or trailing data after the value is an error
unmarshalCacheEntry(bytes) ==
    IF bytes = <<"A">> THEN [err |-> FALSE, val |-> EntryA]
    ELSE IF bytes = <<"B">> THEN [err |-> FALSE, val |-> EntryB]
    ELSE [err |-> TRUE, val |-> <<>>]

\* a decoder that accepts any config record
unmarshalConfigLenient(bytes) == [err |-> FALSE]

\* json.Unmarshal(configBytes, &metadata): an object decodes, anything else
\* is an error
unmarshalConfig(bytes) == [err |-> bytes # <<"C">>]

\* ------------------------------------------------------ processCacheEntry
RECURSIVE appendFiles(_, _, _, _)
\* for _, filename := range dir.F { ... allPaths = append(allPaths, filePath) }
appendFiles(paths, path, files, k) ==
    IF k > Len(files) THEN paths
    ELSE appendFiles(Append(paths, canonicalize(joinCleanPaths(path, files[k]))),
                     path, files, k + 1)

\* a closure that counts an entry only when its path is new
processDirCountUnique(acc, rootDir, dir) ==
    LET path == canonicalize(joinCleanPaths(rootDir, dir.P))
    IN  [allPaths |-> appendFiles(Append(acc.allPaths, path), path, dir.F, 1),
         entryCount |-> IF path \in {acc.allPaths[i] : i \in 1..Len(acc.allPaths)}
                        THEN acc.entryCount ELSE acc.entryCount + 1,
         fileCount |-> acc.fileCount + Len(dir.F)]

\* the body of the inner loop for one directory entry
processDir(acc, rootDir, dir) ==
    LET path == canonicalize(joinCleanPaths(rootDir, dir.P))
    IN  [allPaths |-> appendFiles(Append(acc.allPaths, path), path, dir.F, 1),
         entryCount |-> acc.entryCount + 1,
         fileCount |-> acc.fileCount + Len(dir.F)]

RECURSIVE processDirs(_, _, _, _)
processDirs(acc, rootDir, dirs, k) ==
    IF k > Len(dirs) THEN acc
    ELSE processDirs(processDir(acc, rootDir, dirs[k]), rootDir, dirs, k + 1)

RECURSIVE processSnapshots(_, _, _)
processSnapshots(acc, cacheEntry, k) ==
    IF k > Len(cacheEntry) THEN acc
    ELSE processSnapshots(
             processDirs(acc, cacheEntry[k].Root, cacheEntry[k].Dirs, 1),
             cacheEntry, k + 1)

\* the aggregating reader's closure: appends to allPaths, bumps the counters
processCacheEntry(acc, cacheEntry) == processSnapshots(acc, cacheEntry, 1)

\* a closure that prints the directory path and forgets its files
printDirNoFiles(out, rootDir, dir) ==
    Append(out, canonicalize(joinCleanPaths(rootDir, dir.P)))

\* the streaming reader's closure: prints the directory path, then its files
printDir(out, rootDir, dir) ==
    LET path == canonicalize(joinCleanPaths(rootDir, dir.P))
    IN  appendFiles(Append(out, path), path, dir.F, 1)

RECURSIVE printDirs(_, _, _, _)
printDirs(out, rootDir, dirs, k) ==
    IF k > Len(dirs) THEN out
    ELSE printDirs(printDir(out, rootDir, dirs[k]), rootDir, dirs, k + 1)

RECURSIVE printSnapshots(_, _, _)
printSnapshots(out, cacheEntry, k) ==
    IF k > Len(cacheEntry) THEN out
    ELSE printSnapshots(printDirs(out, cacheEntry[k].Root, cacheEntry[k].Dirs, 1),
                        cacheEntry, k + 1)

processCacheEntryStream(out, cacheEntry) == printSnapshots(out, cacheEntry, 1)

\* ------------------------------------------------------- dedup and sort
\* the keys of the map uniquePaths
uniquePaths(paths) == {paths[i] : i \in 1..Len(paths)}

\* the orders in which ranging over the map may yield its keys
MapOrders(keys) ==
    {f \in [1..Cardinality(keys) -> keys] :
        \A i, j \in 1..Cardinality(keys) : i # j => f[i] # f[j]}

Swap(s, i, j) == [s EXCEPT ![i] = s[j], ![j] = s[i]]

RECURSIVE sortPathsSkipLast(_, _, _)
\* the exchange sort with the inner loop stopping one element early
sortPathsSkipLast(s, i, j) ==
    IF i >= Len(s) THEN s
    ELSE IF j >= Len(s) - 1 THEN sortPathsSkipLast(s, i + 1, i + 2)
    ELSE IF StrGreater(s[i + 1], s[j + 1])
    THEN sortPathsSkipLast(Swap(s, i + 1, j + 1), i, j + 1)
    ELSE sortPathsSkipLast(s, i, j + 1)

RECURSIVE sortPaths(_, _, _)
\* for i := 0; i < n; i++ { for j := i+1; j < n; j++ { if s[i] > s[j] swap } }
sortPaths(s, i, j) ==
    IF i >= Len(s) THEN s
    ELSE IF j >= Len(s) THEN sortPaths(s, i + 1, i + 2)
    ELSE IF StrGreater(s[i + 1], s[j + 1])
    THEN sortPaths(Swap(s, i + 1, j + 1), i, j + 1)
    ELSE sortPaths(s, i, j + 1)

\* ----------------------------------------------------------------- state
VARIABLES input, aggPc, aggPos, aggErr, version, allPaths, entryCount,
          fileCount, aggOut, strPc, strPos, strErr, strOut

aggVars == <<aggPc, aggPos, aggErr, version, allPaths, entryCount, fileCount, aggOut>>
strVars == <<strPc, strPos, strErr, strOut>>
readerVars == <<input, aggVars, strVars>>
vars == <<pathVars, readerVars>>

NoReport == [entries |-> 0, files |-> 0, unique |-> 0, paths |-> <<>>]

InitReaders ==
    /\ input \in StringsUpTo(StreamBytes, MaxStream)
    /\ aggPc = "version" /\ aggPos = 1 /\ aggErr = "none"
    /\ version = <<>> /\ allPaths = <<>> /\ entryCount = 0 /\ fileCount = 0
    /\ aggOut = NoReport
    /\ strPc = "version" /\ strPos = 1 /\ strErr = "none" /\ strOut = <<>>

PathIdle ==
    /\ root = <<>> /\ rel = <<>> /\ fname = <<>>
    /\ joined = <<>> /\ dirPath = <<>> /\ filePath = <<>>
    /\ stage = "idle"

ReadersIdle ==
    /\ input = <<>>
    /\ aggPc = "idle" /\ aggPos = 1 /\ aggErr = "none"
    /\ version = <<>> /\ allPaths = <<>> /\ entryCount = 0 /\ fileCount = 0
    /\ aggOut = NoReport
    /\ strPc = "idle" /\ strPos = 1 /\ strErr = "none" /\ strOut = <<>>

\* ------------------------------------------------- the aggregating reader
\* versionBytes, err := readLine(reader) ... fmt.Printf("Database version")
AggReadVersion ==
    /\ aggPc = "version"
    /\ LET r == readLine(input, aggPos)
       IN  /\ aggPos' = r.pos
           /\ IF r.err # "nil"
              THEN /\ aggPc' = "fatal"
                   /\ aggErr' = "Error reading version"
                   /\ UNCHANGED version
              ELSE /\ version' = stripSeparator(r.line)
                   /\ aggPc' = "config"
                   /\ UNCHANGED aggErr
    /\ UNCHANGED <<allPaths, entryCount, fileCount, aggOut>>
    /\ UNCHANGED <<input, strVars, pathVars>>

\* configBytes, err := readLine(reader) ... json.Unmarshal(configBytes, &metadata)
AggReadConfig ==
    /\ aggPc = "config"
    /\ LET r == readLine(input, aggPos)
       IN  /\ aggPos' = r.pos
           /\ IF r.err # "nil"
              THEN /\ aggPc' = "fatal"
                   /\ aggErr' = "Error reading config"
              ELSE IF unmarshalConfig(stripSeparator(r.line)).err
              THEN /\ aggPc' = "fatal"
                   /\ aggErr' = "Error parsing config JSON"
              ELSE /\ aggPc' = "entries"
                   /\ UNCHANGED aggErr
    /\ UNCHANGED <<version, allPaths, entryCount, fileCount, aggOut>>
    /\ UNCHANGED <<input, strVars, pathVars>>

\* an entry loop that skips a malformed record and continues
aggEntryStepSkipMalformed(r, acc) ==
    IF r.err # "nil"
    THEN LET d == unmarshalCacheEntry(r.line)
         IN  [pc |-> "report", err |-> "none",
              acc |-> IF Len(r.line) > 0 /\ ~d.err
                      THEN processCacheEntry(acc, d.val) ELSE acc]
    ELSE LET d == unmarshalCacheEntry(stripSeparator(r.line))
         IN  [pc |-> "entries", err |-> "none",
              acc |-> IF d.err THEN acc ELSE processCacheEntry(acc, d.val)]

\* an entry loop that treats an undecodable tail like any other record
aggEntryStepStrictTail(r, acc) ==
    LET d == unmarshalCacheEntry(stripSeparator(r.line))
    IN  IF Len(stripSeparator(r.line)) = 0
        THEN [pc |-> IF r.err # "nil" THEN "report" ELSE "entries",
              err |-> "none", acc |-> acc]
        ELSE IF d.err
        THEN [pc |-> "fatal", err |-> "Error parsing cache entry JSON", acc |-> acc]
        ELSE [pc |-> IF r.err # "nil" THEN "report" ELSE "entries",
              err |-> "none", acc |-> processCacheEntry(acc, d.val)]

\* what one iteration of the entry loop does to the accumulated state:
\* [pc, err, acc]
aggEntryStep(r, acc) ==
    IF r.err # "nil"
    THEN \* err == io.EOF: process any remaining data, then break
         LET d == unmarshalCacheEntry(r.line)
         IN  [pc |-> "report", err |-> "none",
              acc |-> IF Len(r.line) > 0 /\ ~d.err
                      THEN processCacheEntry(acc, d.val) ELSE acc]
    ELSE IF Len(r.line) = 0 \/ Len(stripSeparator(r.line)) = 0
    THEN [pc |-> "entries", err |-> "none", acc |-> acc]
    ELSE LET d == unmarshalCacheEntry(stripSeparator(r.line))
         IN  IF d.err
             THEN [pc |-> "fatal", err |-> "Error parsing cache entry JSON",
                   acc |-> acc]
             ELSE [pc |-> "entries", err |-> "none",
                   acc |-> processCacheEntry(acc, d.val)]

AggReadEntry ==
    /\ aggPc = "entries"
    /\ LET r == readLine(input, aggPos)
           s == aggEntryStep(r, [allPaths |-> allPaths, entryCount |-> entryCount,
                                 fileCount |-> fileCount])
       IN  /\ aggPos' = r.pos
           /\ aggPc' = s.pc
           /\ aggErr' = s.err
           /\ allPaths' = s.acc.allPaths
           /\ entryCount' = s.acc.entryCount
           /\ fileCount' = s.acc.fileCount
    /\ UNCHANGED <<version, aggOut>>
    /\ UNCHANGED <<input, strVars, pathVars>>

\* remove duplicates, sort, print the counts and the paths
AggReport ==
    /\ aggPc = "report"
    /\ \E order \in MapOrders(uniquePaths(allPaths)) :
          LET sortedPaths == sortPaths(order, 0, 1)
          IN  aggOut' = [entries |-> entryCount, files |-> fileCount,
                         unique |-> Len(sortedPaths), paths |-> sortedPaths]
    /\ aggPc' = "done"
    /\ UNCHANGED <<aggPos, aggErr, version, allPaths, entryCount, fileCount>>
    /\ UNCHANGED <<input, strVars, pathVars>>

\* --------------------------------------------------- the streaming reader
\* _, err = readLine(reader)   (version line, skipped)
StrReadVersion ==
    /\ strPc = "version"
    /\ LET r == readLine(input, strPos)
       IN  /\ strPos' = r.pos
           /\ IF r.err # "nil"
              THEN strPc' = "fatal" /\ strErr' = "Error reading version"
              ELSE strPc' = "config" /\ UNCHANGED strErr
    /\ UNCHANGED strOut
    /\ UNCHANGED <<input, aggVars, pathVars>>

\* _, err = readLine(reader)   (config line, skipped)
StrReadConfig ==
    /\ strPc = "config"
    /\ LET r == readLine(input, strPos)
       IN  /\ strPos' = r.pos
           /\ IF r.err # "nil"
              THEN strPc' = "fatal" /\ strErr' = "Error reading config"
              ELSE strPc' = "entries" /\ UNCHANGED strErr
    /\ UNCHANGED strOut
    /\ UNCHANGED <<input, aggVars, pathVars>>

\* one iteration of the streaming entry loop: [pc, err, out]
strEntryStep(r, out) ==
    IF r.err # "nil"
    THEN LET d == unmarshalCacheEntry(r.line)
         IN  [pc |-> "done", err |-> "none",
              out |-> IF Len(r.line) > 0 /\ ~d.err
                      THEN processCacheEntryStream(out, d.val) ELSE out]
    ELSE IF Len(r.line) = 0 \/ Len(stripSeparator(r.line)) = 0
    THEN [pc |-> "entries", err |-> "none", out |-> out]
    ELSE LET d == unmarshalCacheEntry(stripSeparator(r.line))
         IN  IF d.err
             THEN [pc |-> "fatal", err |-> "Error parsing cache entry JSON",
                   out |-> out]
             ELSE [pc |-> "entries", err |-> "none",
                   out |-> processCacheEntryStream(out, d.val)]

StrReadEntry ==
    /\ strPc = "entries"
    /\ LET r == readLine(input, strPos)
           s == strEntryStep(r, strOut)
       IN  /\ strPos' = r.pos
           /\ strPc' = s.pc
           /\ strErr' = s.err
           /\ strOut' = s.out
    /\ UNCHANGED <<input, aggVars, pathVars>>

Init == InitReaders /\ PathIdle

Next ==
    \/ AggReadVersion
    \/ AggReadConfig
    \/ AggReadEntry
    \/ AggReport
    \/ StrReadVersion
    \/ StrReadConfig
    \/ StrReadEntry

Spec == Init /\ [][Next]_vars

\* ------------------------------------------ the cache file, read as a whole
RECURSIVE SplitFrom(_, _, _, _)
\* scan s from index i: acc holds the fields read, the last one still open
SplitFrom(s, d, i, acc) ==
    IF i > Len(s) THEN acc
    ELSE IF s[i] = d THEN SplitFrom(s, d, i + 1, Append(acc, <<>>))
    ELSE SplitFrom(s, d, i + 1,
                   [acc EXCEPT ![Len(acc)] = Append(acc[Len(acc)], s[i])])

\* the fields of s between occurrences of d (k occurrences give k+1 fields)
Split(s, d) == SplitFrom(s, d, 1, << <<>> >>)

\* the records of the input: all but the last are delimiter-terminated, the
\* last is the unterminated tail (empty when the file ends in a delimiter).
\* The operators below take the records f = Fields of the input.
Fields == Split(input, lineSeparator)
NumTerminated(f) == Len(f) - 1
TailRecord(f) == f[Len(f)]

RECURSIVE EndOfField(_, _)
\* stream position just past the delimiter of the k-th terminated record
EndOfField(f, k) == IF k = 0 THEN 1 ELSE EndOfField(f, k - 1) + Len(f[k]) + 1

\* the records that hold exactly one JSON object
IsJsonObject(bytes) == bytes = <<"C">>

HeaderTerminated(f) == NumTerminated(f) >= 2
ConfigDecodes(f) == HeaderTerminated(f) /\ IsJsonObject(f[2])
ConfigUndecodable(f) == NumTerminated(f) >= 1 /\ ~IsJsonObject(f[2])

\* indexes of the terminated snapshot records
BodyIndexes(f) == 3..NumTerminated(f)

Malformed(f, k) == f[k] # <<>> /\ unmarshalCacheEntry(f[k]).err
HasMalformed(f) == \E k \in BodyIndexes(f) : Malformed(f, k)
FirstMalformed(f) == CHOOSE k \in BodyIndexes(f) :
                         Malformed(f, k) /\ \A j \in 3..(k - 1) : ~Malformed(f, j)

\* indexes of the records that decode to snapshots: terminated ones, and the
\* tail when it decodes
DecodedIndexes(f) == {k \in 3..Len(f) : ~unmarshalCacheEntry(f[k]).err}

\* the directory entries of record k, as <<record, snapshot, entry>> triples
EntriesOf(f, k) ==
    LET e == unmarshalCacheEntry(f[k]).val
    IN  UNION {{<<k, s, d>> : d \in 1..Len(e[s].Dirs)} : s \in 1..Len(e)}

EntryAt(f, t) == unmarshalCacheEntry(f[t[1]]).val[t[2]].Dirs[t[3]]
RootAt(f, t) == unmarshalCacheEntry(f[t[1]]).val[t[2]].Root
DirPathAt(f, t) == canonicalize(joinCleanPaths(RootAt(f, t), EntryAt(f, t).P))

\* what a run over the records ks is expected to visit and reconstruct
ExpectedEntries(f, ks) == UNION {EntriesOf(f, k) : k \in ks}
ExpectedPathSet(f, ks) ==
    UNION {{DirPathAt(f, t)} \cup
           {canonicalize(joinCleanPaths(DirPathAt(f, t), EntryAt(f, t).F[i])) :
                i \in 1..Len(EntryAt(f, t).F)} : t \in ExpectedEntries(f, ks)}

RECURSIVE SumFiles(_, _)
SumFiles(f, ts) ==
    IF ts = {} THEN 0
    ELSE LET t == CHOOSE x \in ts : TRUE
         IN  Len(EntryAt(f, t).F) + SumFiles(f, ts \ {t})

RECURSIVE PathsInOrder(_, _, _)
\* the paths of records from..to in decode order (undecodable ones give none)
PathsInOrder(f, from, to) ==
    IF from > to THEN <<>>
    ELSE LET d == unmarshalCacheEntry(f[from])
         IN  (IF d.err THEN <<>> ELSE processCacheEntryStream(<<>>, d.val))
             \o PathsInOrder(f, from + 1, to)

IsPrefix(s, t) == Len(s) <= Len(t) /\ SubSeq(t, 1, Len(s)) = s

StrictlyAscending(s) == \A i \in 1..(Len(s) - 1) : StrLess(s[i], s[i + 1])

AggTerminal == aggPc \in {"done", "fatal"}
StrTerminal == strPc \in {"done", "fatal"}

\* ------------------------------------------- the path functions on their own
PathInit == InitPath /\ ReadersIdle

NextPath ==
    \/ JoinDir /\ UNCHANGED readerVars
    \/ CanonDir /\ UNCHANGED readerVars
    \/ BuildFile /\ UNCHANGED readerVars

SpecPath == PathInit /\ [][NextPath]_vars

\* ================================================================ claims

\* C1: every directory path canonicalize(joinCleanPaths(R, P)), and every
\* file path built from it and a filename, begins with "/" and holds no "."
\* and no ".." segment.
C1_AbsoluteNoDots ==
    /\ stage \in {"dir", "file"} =>
           IsAbs(dirPath) /\ ~HasDotSegment(dirPath)
    /\ stage = "file" =>
           IsAbs(filePath) /\ ~HasDotSegment(filePath)

\* C2: canonicalize is idempotent: canonicalizing the directory path again
\* returns it unchanged.
C2_Idempotent ==
    stage \in {"dir", "file"} => canonicalize(dirPath) = dirPath

\* C3: once a non-empty, delimiter-terminated snapshot record that fails to
\* decode has been read, the reader is in its fatal state, positioned right
\* after that record; nothing after it is read, only the records before it
\* were processed, and the run never completes.
C3_MalformedAborts ==
    LET f == Fields
    IN  (HeaderTerminated(f) /\ HasMalformed(f)) =>
        LET bad == FirstMalformed(f)
            before == PathsInOrder(f, 3, bad - 1)
        IN  /\ ConfigDecodes(f) =>
                   /\ aggPc \notin {"report", "done"}
                   /\ aggOut = NoReport
                   /\ aggPos <= EndOfField(f, bad)
                   /\ IsPrefix(allPaths, before)
                   /\ aggPos > EndOfField(f, bad - 1) =>
                          /\ aggPc = "fatal"
                          /\ aggErr = "Error parsing cache entry JSON"
                          /\ allPaths = before
            /\ strPc # "done"
            /\ strPos <= EndOfField(f, bad)
            /\ IsPrefix(strOut, before)
            /\ strPos > EndOfField(f, bad - 1) =>
                   /\ strPc = "fatal"
                   /\ strErr = "Error parsing cache entry JSON"
                   /\ strOut = before

C3_Witness ==
    /\ aggPc = "fatal" /\ aggErr = "Error parsing cache entry JSON"
    /\ strPc = "fatal" /\ strErr = "Error parsing cache entry JSON"
    /\ aggPos <= Len(input)
    /\ LET f == Fields
       IN  /\ HasMalformed(f)
           /\ \E k \in (FirstMalformed(f) + 1)..Len(f) : k \in DecodedIndexes(f)

\* C4: when the file ends in an empty tail or in unterminated bytes that do
\* not decode (and no terminated record is malformed), no reader turns fatal
\* and the results are exactly those gathered from the terminated records.
TailContributesNothing(f) ==
    /\ ConfigDecodes(f)
    /\ ~HasMalformed(f)
    /\ unmarshalCacheEntry(TailRecord(f)).err

C4_TailRecovered ==
    LET f == Fields
    IN  TailContributesNothing(f) =>
        LET earlier == PathsInOrder(f, 3, NumTerminated(f))
            ks == DecodedIndexes(f) \cap BodyIndexes(f)
        IN  /\ aggPc # "fatal" /\ aggErr = "none"
            /\ strPc # "fatal" /\ strErr = "none"
            /\ aggPc \in {"report", "done"} =>
                   /\ allPaths = earlier
                   /\ entryCount = Cardinality(ExpectedEntries(f, ks))
                   /\ fileCount = SumFiles(f, ExpectedEntries(f, ks))
            /\ aggPc = "done" =>
                   /\ aggOut.entries = entryCount
                   /\ aggOut.files = fileCount
                   /\ uniquePaths(aggOut.paths) = uniquePaths(earlier)
            /\ strPc = "done" => strOut = earlier

C4_Witness ==
    /\ aggPc = "done" /\ strPc = "done"
    /\ aggOut.entries > 0
    /\ strOut # <<>>
    /\ TailContributesNothing(Fields)
    /\ TailRecord(Fields) # <<>>

\* C5 (as stated): if the config record fails to decode, the run aborts
\* before any snapshot record is decoded or processed and before any path
\* is produced.
C5_Original ==
    ConfigUndecodable(Fields) =>
        /\ aggPc \notin {"entries", "report", "done"}
        /\ allPaths = <<>>
        /\ strPc \notin {"entries", "done"}
        /\ strOut = <<>>

\* C5 (amended): in the aggregating reader, if the config record fails to
\* decode, the run aborts before any snapshot record is read: it never
\* enters the entry loop, reads nothing past the config record, collects no
\* path and reports nothing.
C5_AggregatorAborts ==
    LET f == Fields
    IN  ConfigUndecodable(f) =>
        /\ aggPc \notin {"entries", "report", "done"}
        /\ allPaths = <<>> /\ entryCount = 0 /\ fileCount = 0
        /\ aggOut = NoReport
        /\ aggPos <= EndOfField(f, 2)
        /\ aggPos > EndOfField(f, 1) => aggPc = "fatal"

C5_Witness ==
    /\ aggPc = "fatal" /\ aggErr = "Error parsing config JSON"
    /\ LET f == Fields
       IN  /\ ConfigUndecodable(f)
           /\ \E k \in BodyIndexes(f) : k \in DecodedIndexes(f)

C7_Counts ==
    aggPc = "done" =>
        LET f == Fields
            visited == ExpectedEntries(f, DecodedIndexes(f))
        IN  /\ aggOut.entries = Cardinality(visited)
            /\ aggOut.files = SumFiles(f, visited)
            /\ aggOut.unique = Cardinality(ExpectedPathSet(f, DecodedIndexes(f)))

\* two records yield the same directory path: it is reported once, and each
\* visit is counted
C7_Witness ==
    /\ aggPc = "done"
    /\ aggOut.entries > aggOut.unique
    /\ LET f == Fields
       IN  \E t, u \in ExpectedEntries(f, DecodedIndexes(f)) :
               t[1] # u[1] /\ DirPathAt(f, t) = DirPathAt(f, u)

\* C8: when the source ends with pending bytes and no trailing delimiter,
\* those bytes are yielded as the final record and processed as the record at
\* that position, whichever record it is: reaching the end of the source is
\* never a fatal read failure (the source of the model never fails, so every
\* read error is a clean end of source).
C8_CleanEofNeverFatal ==
    TailRecord(Fields) # <<>> =>
        /\ aggErr \notin {"Error reading version", "Error reading config"}
        /\ strErr \notin {"Error reading version", "Error reading config"}

\* C9: joinCleanPaths(base, leaf) is leaf when base is empty, base followed
\* directly by leaf when base is "/", base when leaf is empty, and
\* base + "/" + leaf otherwise; each statement holds wherever its condition
\* does.
C9_JoinCases ==
    stage # "start" =>
        /\ root = <<>> => joined = rel
        /\ root = <<"/">> => joined = root \o rel
        /\ rel = <<>> => joined = root
        /\ (root # <<>> /\ root # <<"/">> /\ rel # <<>>) =>
               joined = root \o <<"/">> \o rel

C9_Witness ==
    /\ stage = "joined"
    /\ root = <<"/">> /\ rel = <<>>
    /\ joined = <<"/">>

\* C10: on inputs whose header records are terminated and whose config
\* record decodes, both readers complete or both abort, and on completion
\* the streaming reader has printed exactly allPaths, element for element.
C10_ReadersAgree ==
    (AggTerminal /\ StrTerminal /\ ConfigDecodes(Fields)) =>
        /\ aggPc = strPc
        /\ aggPc = "done" =>
               /\ strOut = allPaths
               /\ Len(strOut) = aggOut.entries + aggOut.files
               /\ uniquePaths(strOut) = uniquePaths(aggOut.paths)

C10_Witness ==
    /\ aggPc = "done" /\ strPc = "done"
    /\ Len(strOut) > aggOut.unique
    /\ aggOut.files > 0
    /\ ConfigDecodes(Fields)
====
